---- MODULE Spec2Model ----
(***************************************************************************)
(* A model of citro3d/src/light.rs: the LightEnv light-slot allocator, the *)
(* Light mutators reached through light_mut, connect_lut, and the LutData  *)
(* table generator from_fn.                                                *)
(*                                                                         *)
(* Floats are modelled by integers: the model never rounds, it only moves  *)
(* values around and subtracts them.  The citro3d C library behind         *)
(* citro3d_sys is not part of the sources; the few calls the model needs   *)
(* are the operators named C3D_... below.                                  *)
(***************************************************************************)
EXTENDS Integers, Sequences, FiniteSets, TLC

\* ------------------------------------------------------------------ bounds
\* How many create_light calls a behaviour makes.
MaxCreateCalls == 10
\* How many calls other than create_light a behaviour makes (light_mut,
\* Light mutators, connect_lut, set_material, writes through as_raw_mut).
MaxOps == 2
\* How many curves from_fn is called with.
NumCurves == 2
\* The largest argument LightIndex::new is called with.
MaxIdxArg == 300
\* buffer::Info::add is called with slices of 0 .. MaxLen elements of
\* 0 .. MaxElem bytes each; BufInfo_Add answers (0 - MaxErr) .. MaxRes.
MaxLen == 3
MaxElem == 4
MaxErr == 5
MaxRes == 12

\* --------------------------------------------------------------- constants
NB_LIGHTS == 8
NB_LUTS == 6
LUT_SZ == 512
base == 128

Slots == 0 .. (NB_LIGHTS - 1)
LutSlots == 0 .. (NB_LUTS - 1)

\* Option<usize> / Option<LightIndex>
NoneIdx == [some |-> FALSE, v |-> 0]
SomeIdx(i) == [some |-> TRUE, v |-> i]

\* Addresses the hardware state holds.
Null == [kind |-> "null", at |-> 0]
LightAddr(i) == [kind |-> "light", at |-> i]
LutAddr(i) == [kind |-> "lut", at |-> i]
Foreign == [kind |-> "foreign", at |-> 0]
EnvAddr == [kind |-> "env", at |-> 0]

\* LutData values handed to connect_lut (0 is "no table").
NoLut == 0
LutDatas == {1, 2}

\* Inputs the callers pass.
Colors == {<<1, 0, 0>>, <<2, 5, 0 - 1>>}
Positions == {<<1, 0 - 4, 3>>}
Materials == {1}
LutInputs == {"LightNormal"}
LightLutIds == {"D0", "D1", "SpotLightAttenuation", "Fresnel", "ReflectBlue",
                "ReflectGreen", "ReflectRed", "DistanceAttenuation"}

\* MaybeUninit::zeroed().assume_init() of a C3D_Light
ZeroedLight == [color |-> <<0, 0, 0>>, position |-> <<0, 0, 0, 0>>,
                enabled |-> FALSE, shadow |-> FALSE, parent |-> Null]

\* An empty slot of `lights` (Option<Light> = None).
NoLight == [is_some |-> FALSE, raw |-> ZeroedLight, spot |-> NoLut,
            diffuse_atten |-> NoLut]

\* Light::new
LightNew(r) == [is_some |-> TRUE, raw |-> r, spot |-> NoLut,
                diffuse_atten |-> NoLut]

VARIABLES
    lights,     \* LightEnv.lights : [Option<Light>; 8]
    luts,       \* LightEnv.luts : [Option<LutData>; 6]
    raw,        \* LightEnv.raw : the C3D_LightEnv the hardware library owns
    ret,        \* what the last call returned, and whether it called the hardware library
    aborted,    \* a panic ended the program
    createLog,  \* the results of the create_light calls that returned, in order
    ops,        \* the number of calls other than create_light so far
    \* one call of LutData::from_fn
    fn_f,       \* the curve f
    fn_negative,\* the argument negative
    fn_checks,  \* the build checks integer overflow (debug) or wraps (release)
    fn_i,       \* the loop variable i
    fn_data,    \* the local array data
    fn_pc,      \* "idle", "loop", "done" (returned) or "panic"
    fn_calls,   \* the arguments f was called with, in order, in 256ths
    fn_writes,  \* per index of data, how many samples and differences were stored
    \* one use of LightIndex
    li_arg,     \* the argument idx of LightIndex::new
    li_out,     \* the LightIndex made: state "call", "made" or "panic", and its u8
    li_usize,   \* what as_usize returned for it (-1 before the call)
    \* calls of buffer::Info::add and add_bytes
    buf_call,   \* the last call: its arguments and the result of BufInfo_Add
    buf_out     \* what the last call returned

envvars == <<lights, luts, raw, ret, aborted, createLog, ops>>
fnvars == <<fn_f, fn_negative, fn_checks, fn_i, fn_data, fn_pc, fn_calls, fn_writes>>
idxvars == <<li_arg, li_out, li_usize>>
bufvars == <<buf_call, buf_out>>
vars == <<lights, luts, raw, ret, aborted, createLog, ops,
          fn_f, fn_negative, fn_checks, fn_i, fn_data, fn_pc, fn_calls, fn_writes,
          li_arg, li_out, li_usize, buf_call, buf_out>>

\* C3D_LightEnvInit on zeroed memory
C3D_LightEnvInit == [lights |-> [i \in Slots |-> Null],
                     luts |-> [id \in LightLutIds |-> [ptr |-> Null, input |-> "unset"]],
                     material |-> 0]

Min(S) == CHOOSE x \in S : \A y \in S : x <= y
Max(S) == CHOOSE x \in S : \A y \in S : x >= y

\* Variant: the light is initialised in a temporary, before it is moved
\* into its slot.
TempPtr(idx) == [kind |-> "temp", at |-> idx]
\* create_light's `target`: the light inside slot idx, taken after the slot
\* was set, and self.as_raw_mut(): the raw field of the pinned LightEnv.
TargetPtr(idx) == LightAddr(idx)
EnvPtr == EnvAddr

\* The hardware library's light initialisation: it clears the light, takes
\* the lowest light slot its environment holds no light in, records the
\* light's address there and the environment's address in the light, and
\* returns that slot; -1 when its environment has no free slot.  ls is the
\* light array with the new light in slot target; the addresses are the
\* ones create_light passes.
C3D_LightInit(ls, env, target) ==
    LET free == {i \in Slots : env.lights[i] = Null} IN
    IF free = {}
    THEN [r |-> 0 - 1, env |-> env,
          lights |-> [ls EXCEPT ![target].raw = ZeroedLight]]
    ELSE [r |-> Min(free),
          env |-> [env EXCEPT !.lights[Min(free)] = TargetPtr(target)],
          lights |-> [ls EXCEPT ![target].raw =
                         [ZeroedLight EXCEPT !.enabled = TRUE, !.parent = EnvPtr]]]

\* Variant: the assert lets idx = NB_LIGHTS through.
LightIndexInclusive(idx) == [ok |-> idx <= NB_LIGHTS, v |-> idx % 256]
\* LightIndex::new : [ok |-> FALSE] is the failed assert
LightIndex_new(idx) == [ok |-> idx < NB_LIGHTS, v |-> idx % 256]

\* Variants of the slot search: one that falls back to slot 0 when no slot
\* is empty, one that takes the highest empty slot.
FirstEmptyOrZero(ls) ==
    LET empty == {n \in Slots : ~ls[n].is_some} IN
    IF empty = {} THEN SomeIdx(0) ELSE SomeIdx(Min(empty))
LastEmpty(ls) ==
    LET empty == {n \in Slots : ~ls[n].is_some} IN
    IF empty = {} THEN NoneIdx ELSE SomeIdx(Max(empty))
\* self.lights().iter().enumerate().find(|(_, n)| n.is_none()).map(|(n, _)| n)
FirstEmpty(ls) ==
    LET empty == {n \in Slots : ~ls[n].is_some} IN
    IF empty = {} THEN NoneIdx ELSE SomeIdx(Min(empty))

\* Variant: the first assert alone.
OnlyNonNegative(r, idx) == r >= 0
\* create_light's two asserts on the result r of C3D_LightInit
InitAccepted(r, idx) == r >= 0 /\ r = idx

EnvInit ==
    /\ lights = [i \in Slots |-> NoLight]
    /\ luts = [i \in LutSlots |-> NoLut]
    /\ raw = C3D_LightEnvInit
    /\ ret = [op |-> "new", val |-> NoneIdx, hw |-> TRUE]
    /\ aborted = FALSE
    /\ createLog = <<>>
    /\ ops = 0

\* No from_fn call is running.
FnIdle ==
    /\ fn_f = 1
    /\ fn_negative = FALSE
    /\ fn_checks = FALSE
    /\ fn_i = 0
    /\ fn_data = <<>>
    /\ fn_pc = "idle"
    /\ fn_calls = <<>>
    /\ fn_writes = <<>>

\* No LightIndex is being made.
IdxIdle ==
    /\ li_arg = 0
    /\ li_out = [state |-> "idle", v |-> 0]
    /\ li_usize = 0 - 1

\* No buffer call has been made.
BufIdle ==
    /\ buf_call = [fn |-> "none", len |-> 0, elem |-> 0, res |-> 0]
    /\ buf_out = [kind |-> "none", index |-> 0, size |-> 0, code |-> 0]

Init == EnvInit /\ FnIdle /\ IdxIdle /\ BufIdle

\* LightEnv::create_light
create_light ==
    /\ ~aborted
    /\ Len(createLog) < MaxCreateCalls
    /\ LET found == FirstEmpty(lights) IN
       IF ~found.some
       THEN /\ ret' = [op |-> "create_light", val |-> NoneIdx, hw |-> FALSE]
            /\ createLog' = Append(createLog, NoneIdx)
            /\ UNCHANGED <<lights, luts, raw, aborted, ops, fnvars, idxvars, bufvars>>
       ELSE LET idx == found.v
                placed == [lights EXCEPT ![idx] = LightNew(ZeroedLight)]
                hw == C3D_LightInit(placed, raw, idx)
                li == LightIndex_new(idx)
            IN  /\ lights' = hw.lights
                /\ raw' = hw.env
                /\ IF InitAccepted(hw.r, idx) /\ li.ok
                   THEN /\ ret' = [op |-> "create_light", val |-> SomeIdx(li.v),
                                   hw |-> TRUE]
                        /\ createLog' = Append(createLog, SomeIdx(li.v))
                        /\ aborted' = FALSE
                   ELSE /\ ret' = [op |-> "panic", val |-> NoneIdx,
                                   hw |-> TRUE]
                        /\ createLog' = createLog
                        /\ aborted' = TRUE
                /\ UNCHANGED <<luts, ops, fnvars, idxvars, bufvars>>

\* Variants of light_mut's result: a view whatever the slot holds, and the
\* view of the neighbouring slot.
AlwaysSomeView(ls, idx) == SomeIdx(idx)
NextSlotView(ls, idx) ==
    IF ls[idx].is_some THEN SomeIdx((idx + 1) % NB_LIGHTS) ELSE NoneIdx
\* LightEnv::light_mut : get_pin(idx).unwrap().as_pin_mut()
light_mut_view(ls, idx) == IF ls[idx].is_some THEN SomeIdx(idx) ELSE NoneIdx

\* A call of light_mut whose view the caller drops unused.
light_mut(idx) ==
    /\ ~aborted
    /\ ops < MaxOps
    /\ ops' = ops + 1
    /\ IF idx \in DOMAIN lights
       THEN /\ ret' = [op |-> "light_mut", val |-> light_mut_view(lights, idx),
                       hw |-> FALSE]
            /\ aborted' = FALSE
       ELSE /\ ret' = [op |-> "panic", val |-> NoneIdx, hw |-> FALSE]
            /\ aborted' = TRUE
    /\ UNCHANGED <<lights, luts, raw, createLog, fnvars, idxvars, bufvars>>

\* Light::set_position : FVec4::new(p.x(), p.y(), p.z(), 1.0), C3D_LightPosition
Light_set_position(l, p) == [l EXCEPT !.raw.position = <<p[1], p[2], p[3], 1>>]
\* Light::set_color : C3D_LightColor(raw, r, g, b)
Light_set_color(l, r, g, b) == [l EXCEPT !.raw.color = <<r, g, b>>]
\* Variant: enabled written to the shadow flag.
EnabledIntoShadow(l, enabled) == [l EXCEPT !.raw.shadow = enabled]
\* Light::set_enabled : C3D_LightEnable(raw, enabled)
Light_set_enabled(l, enabled) == [l EXCEPT !.raw.enabled = enabled]
\* Light::set_shadow : C3D_LightShadowEnable(raw, shadow)
Light_set_shadow(l, shadow) == [l EXCEPT !.raw.shadow = shadow]

\* A mutator called on the view light_mut(idx) returned.  The view borrows
\* the LightEnv exclusively, so no other call runs between light_mut and the
\* mutator: the two are one step.  A caller holding None has no Light to call.
Mutate(idx, l) ==
    /\ ~aborted
    /\ light_mut_view(lights, idx).some
    /\ ops < MaxOps
    /\ ops' = ops + 1
    /\ ret' = [op |-> "unit", val |-> NoneIdx, hw |-> TRUE]
    /\ UNCHANGED <<luts, raw, aborted, createLog, fnvars, idxvars, bufvars>>
    /\ lights' = [lights EXCEPT ![light_mut_view(lights, idx).v] = l]

set_position(idx, p) ==
    Mutate(idx, Light_set_position(lights[idx], p))
set_color(idx, r, g, b) ==
    Mutate(idx, Light_set_color(lights[idx], r, g, b))
set_enabled(idx, enabled) ==
    Mutate(idx, Light_set_enabled(lights[idx], enabled))
set_shadow(idx, shadow) ==
    Mutate(idx, Light_set_shadow(lights[idx], shadow))

\* Variants of the match: Fresnel and ReflectBlue exchanged, and
\* SpotLightAttenuation given shared slot 2.
LutSlotSwapped(id) ==
    CASE id = "D0" -> SomeIdx(0)
      [] id = "D1" -> SomeIdx(1)
      [] id = "SpotLightAttenuation" -> NoneIdx
      [] id = "Fresnel" -> SomeIdx(3)
      [] id = "ReflectBlue" -> SomeIdx(2)
      [] id = "ReflectGreen" -> SomeIdx(4)
      [] id = "ReflectRed" -> SomeIdx(5)
      [] id = "DistanceAttenuation" -> NoneIdx
LutSlotSpotStored(id) ==
    CASE id = "D0" -> SomeIdx(0)
      [] id = "D1" -> SomeIdx(1)
      [] id = "SpotLightAttenuation" -> SomeIdx(2)
      [] id = "Fresnel" -> SomeIdx(2)
      [] id = "ReflectBlue" -> SomeIdx(3)
      [] id = "ReflectGreen" -> SomeIdx(4)
      [] id = "ReflectRed" -> SomeIdx(5)
      [] id = "DistanceAttenuation" -> NoneIdx
\* connect_lut's match on id
LutSlotOf(id) ==
    CASE id = "D0" -> SomeIdx(0)
      [] id = "D1" -> SomeIdx(1)
      [] id = "SpotLightAttenuation" -> NoneIdx
      [] id = "Fresnel" -> SomeIdx(2)
      [] id = "ReflectBlue" -> SomeIdx(3)
      [] id = "ReflectGreen" -> SomeIdx(4)
      [] id = "ReflectRed" -> SomeIdx(5)
      [] id = "DistanceAttenuation" -> NoneIdx

\* The hardware library records the table reference and the input selector
\* it is handed for a role.
C3D_LightEnvLut(env, id, input, lut) ==
    [env EXCEPT !.luts[id] = [ptr |-> lut, input |-> input]]

\* Variant: the reference is taken to the argument `data`, a local of
\* connect_lut that is gone when the call returns.
ArgPtr(idx) == [kind |-> "temp", at |-> idx]
\* connect_lut's `lut`: me.luts[i].insert(data) writes data into slot i in
\* place and returns the reference to it there.
InsertedPtr(idx) == LutAddr(idx)

\* LightEnv::connect_lut
connect_lut(id, input, data) ==
    /\ ~aborted
    /\ ops < MaxOps
    /\ ops' = ops + 1
    /\ LET idx == LutSlotOf(id)
           lut == IF idx.some THEN InsertedPtr(idx.v) ELSE Null
       IN  /\ luts' = IF idx.some THEN [luts EXCEPT ![idx.v] = data] ELSE luts
           /\ raw' = C3D_LightEnvLut(raw, id, input, lut)
    /\ ret' = [op |-> "unit", val |-> NoneIdx, hw |-> TRUE]
    /\ UNCHANGED <<lights, aborted, createLog, fnvars, idxvars, bufvars>>

\* LightEnv::set_material : C3D_LightEnvMaterial copies the material
set_material(mat) ==
    /\ ~aborted
    /\ ops < MaxOps
    /\ ops' = ops + 1
    /\ raw' = [raw EXCEPT !.material = mat]
    /\ ret' = [op |-> "unit", val |-> NoneIdx, hw |-> TRUE]
    /\ UNCHANGED <<lights, luts, aborted, createLog, fnvars, idxvars, bufvars>>

\* LightEnv::as_raw_mut hands the caller &mut C3D_LightEnv; the caller
\* stores a pointer in one of its light slots.
as_raw_mut_write(i, p) ==
    /\ ~aborted
    /\ ops < MaxOps
    /\ ops' = ops + 1
    /\ raw' = [raw EXCEPT !.lights[i] = p]
    /\ ret' = [op |-> "unit", val |-> NoneIdx, hw |-> FALSE]
    /\ UNCHANGED <<lights, luts, aborted, createLog, fnvars, idxvars, bufvars>>

\* ------------------------------------------------------ LutData::from_fn
\* The curves f the model calls from_fn with: curve 1 is the identity, the
\* others are not monotonic.  Arguments and values are integers: the
\* argument x = i / max is held in 256ths, which is exact for max = 128 and
\* max = 256.
Curve(c, x) == IF c = 1 THEN x ELSE ((x * x * c) % (c + 5)) - c

\* let diff = if negative { 0 } else { base }; min = -128 + diff; max = base + diff
FnDiff(negative) == IF negative THEN 0 ELSE base
FnMin(negative) == (0 - 128) + FnDiff(negative)
FnMax(negative) == base + FnDiff(negative)

\* i32::abs_diff
AbsDiff(a, b) == IF a >= b THEN a - b ELSE b - a

\* i as f32 / max as f32, in 256ths
XOf(i, max) == (i * 256) \div max

\* if negative { i & 0xFF } else { i } as usize : the low 8 bits of the
\* two's-complement i32
FnIdx(i, negative) == IF negative THEN i % 256 ELSE i

\* usize subtraction: a build with overflow checks panics on a < b, one
\* without wraps modulo the width of usize.  (The model's integers are
\* 32 bits wide, so the modulus stands at 2^30; every wrapped value is far
\* above LUT_SZ either way.)
UsizeSub(a, b, checks) ==
    IF a >= b THEN [overflow |-> FALSE, v |-> a - b]
    ELSE IF checks THEN [overflow |-> TRUE, v |-> 0]
    ELSE [overflow |-> FALSE, v |-> (a - b) % (2 ^ 30)]

\* Variant: the sample of the last step is stored too.
StoredThroughMax(i, max) == i <= max
\* if i < max { data[idx] = v; }
SampleStored(i, max) == i < max
\* if i > min { data[idx + 255] = v - data[idx - 1]; }
DiffStored(i, min) == i > min
\* Variant: the difference is stored one entry lower.
DiffIdxLower(idx) == idx + 254
\* data[idx + 255] : where the difference of step idx is stored
DiffIdx(idx) == idx + 255
\* Variant: the difference is taken from the entry at idx itself.
DiffFromSelf(d, idx, prev, v) == v - d[idx]
DiffValue(d, idx, prev, v) == v - d[prev]

\* One call of from_fn(f, negative), chosen by the caller.
FnCall ==
    /\ fn_f \in 1 .. NumCurves
    /\ fn_negative \in BOOLEAN
    /\ fn_checks \in BOOLEAN
    /\ fn_i = 0
    /\ fn_data = <<>>
    /\ fn_pc = "call"
    /\ fn_calls = <<>>
    /\ fn_writes = <<>>

InitLut == EnvInit /\ FnCall /\ IdxIdle /\ BufIdle

\* from_fn up to the loop: the assert on min and max, the zeroed array
from_fn_enter ==
    /\ fn_pc = "call"
    /\ IF AbsDiff(FnMin(fn_negative), FnMax(fn_negative)) = 2 * base
       THEN /\ fn_pc' = "loop"
            /\ fn_i' = FnMin(fn_negative)
            /\ fn_data' = [j \in 0 .. (LUT_SZ - 1) |-> 0]
            /\ fn_writes' = [j \in 0 .. (LUT_SZ - 1) |-> [s |-> 0, d |-> 0]]
       ELSE /\ fn_pc' = "panic"
            /\ UNCHANGED <<fn_i, fn_data, fn_writes>>
    /\ UNCHANGED <<fn_f, fn_negative, fn_checks, fn_calls, envvars, idxvars, bufvars>>

\* One iteration of `for i in min..=max`
from_fn_iter ==
    /\ fn_pc = "loop"
    /\ fn_i <= FnMax(fn_negative)
    /\ LET max == FnMax(fn_negative)
           min == FnMin(fn_negative)
           x == XOf(fn_i, max)
           v == Curve(fn_f, x)
           idx == FnIdx(fn_i, fn_negative)
           st == SampleStored(fn_i, max)
           df == DiffStored(fn_i, min)
           prev == UsizeSub(idx, 1, fn_checks)
           panics ==
              \/ st /\ idx >= LUT_SZ
              \/ df /\ prev.overflow
              \/ df /\ ~prev.overflow /\ prev.v >= LUT_SZ
              \/ df /\ DiffIdx(idx) >= LUT_SZ
           d1 == IF st THEN [fn_data EXCEPT ![idx] = v] ELSE fn_data
           w1 == IF st THEN [fn_writes EXCEPT ![idx].s = @ + 1] ELSE fn_writes
       IN  /\ fn_calls' = Append(fn_calls, x)
           /\ IF panics
              THEN /\ fn_pc' = "panic"
                   /\ UNCHANGED <<fn_i, fn_data, fn_writes>>
              ELSE /\ fn_pc' = "loop"
                   /\ fn_i' = fn_i + 1
                   /\ fn_data' =
                         IF df
                         THEN [d1 EXCEPT ![DiffIdx(idx)] = DiffValue(d1, idx, prev.v, v)]
                         ELSE d1
                   /\ fn_writes' =
                         IF df THEN [w1 EXCEPT ![DiffIdx(idx)].d = @ + 1] ELSE w1
    /\ UNCHANGED <<fn_f, fn_negative, fn_checks, envvars, idxvars, bufvars>>

\* After the loop: LightLut_FromArray(lut, data) and Self(lut).  The packed
\* hardware format is the library's; the model keeps the array handed over.
from_fn_return ==
    /\ fn_pc = "loop"
    /\ fn_i > FnMax(fn_negative)
    /\ fn_pc' = "done"
    /\ UNCHANGED <<fn_f, fn_negative, fn_checks, fn_i, fn_data, fn_calls,
                   fn_writes, envvars, idxvars, bufvars>>

NextLut ==
    \/ from_fn_enter
    \/ from_fn_iter
    \/ from_fn_return

SpecLut == InitLut /\ [][NextLut]_vars

\* ------------------------------------------------------------ LightIndex
\* LightIndex::as_usize : self.0 as usize
LightIndex_as_usize(li) == li.v

\* A caller about to make a LightIndex by hand.
IdxCall ==
    /\ li_arg \in 0 .. MaxIdxArg
    /\ li_out = [state |-> "call", v |-> 0]
    /\ li_usize = 0 - 1

InitIdx == EnvInit /\ FnIdle /\ IdxCall /\ BufIdle

\* LightIndex::new(li_arg)
new_index ==
    /\ li_out.state = "call"
    /\ li_out' = IF LightIndex_new(li_arg).ok
                 THEN [state |-> "made", v |-> LightIndex_new(li_arg).v]
                 ELSE [state |-> "panic", v |-> 0]
    /\ UNCHANGED <<li_arg, li_usize, envvars, fnvars, bufvars>>

\* as_usize on the LightIndex made
as_usize ==
    /\ li_out.state = "made"
    /\ li_usize = 0 - 1
    /\ li_usize' = LightIndex_as_usize(li_out)
    /\ UNCHANGED <<li_arg, li_out, envvars, fnvars, bufvars>>

NextIdx ==
    \/ new_index
    \/ as_usize

SpecIdx == InitIdx /\ [][NextIdx]_vars

\* ------------------------------------------------------------ buffer::Info
\* The largest libc::c_int, and the largest length a slice can have on the
\* 32-bit target (isize::MAX bytes).
c_int_MAX == 2147483647
isize_MAX == 2147483647

\* What BufInfo_Add can answer: any c_int, here a range around zero.
BufResults == (0 - MaxErr) .. MaxRes
\* The byte lengths add_bytes is called with, the largest slice included.
ByteLens == (0 .. MaxLen) \cup {isize_MAX}

\* The outcomes of add and add_bytes.
OkSlice(index, size) == [kind |-> "Ok", index |-> index, size |-> size, code |-> 0]
ErrOf(kind, code) == [kind |-> kind, index |-> 0, size |-> 0, code |-> code]

\* usize -> c_int by try_into; its error becomes Error::InvalidSize.
TryInto_c_int(n) == [ok |-> n <= c_int_MAX, v |-> IF n <= c_int_MAX THEN n ELSE 0]

\* Variant of the match on res: -1 and -2 exchanged.
MatchResSwapped(res, len) ==
    IF res <= 0 - 3 THEN ErrOf("System", res)
    ELSE IF res = 0 - 2 THEN ErrOf("TooManyBuffers", 0)
    ELSE IF res = 0 - 1 THEN ErrOf("InvalidMemoryLocation", 0)
    ELSE OkSlice(res, len)

\* The match on res in add_bytes; len is vbo_data.len() of its byte slice.
MatchRes(res, len) ==
    IF res <= 0 - 3 THEN ErrOf("System", res)
    ELSE IF res = 0 - 2 THEN ErrOf("InvalidMemoryLocation", 0)
    ELSE IF res = 0 - 1 THEN ErrOf("TooManyBuffers", 0)
    ELSE LET size == TryInto_c_int(len) IN
         IF size.ok THEN OkSlice(res, size.v) ELSE ErrOf("InvalidSize", 0)

\* Info::add_bytes(vbo_data, attrib_info, stride), res being what BufInfo_Add
\* answered for it.
Info_add_bytes(len, stride, res) == MatchRes(res, len)

\* std::mem::size_of_val of a slice of len elements of elem bytes.
size_of_val(len, elem) == len * elem

\* Info::add::<T>(vbo_data, attrib_info): the same data as bytes, with
\* stride size_of::<T>().
Info_add(len, elem, res) == Info_add_bytes(size_of_val(len, elem), elem, res)

\* Slice::index
Slice_index(slice) == slice.index
\* Slice::len
Slice_len(slice) == slice.size

add(len, elem, res) ==
    /\ buf_call' = [fn |-> "add", len |-> len, elem |-> elem, res |-> res]
    /\ buf_out' = Info_add(len, elem, res)
    /\ UNCHANGED <<envvars, fnvars, idxvars>>

add_bytes(len, stride, res) ==
    /\ buf_call' = [fn |-> "add_bytes", len |-> len, elem |-> stride, res |-> res]
    /\ buf_out' = Info_add_bytes(len, stride, res)
    /\ UNCHANGED <<envvars, fnvars, idxvars>>

NextBuf ==
    \/ \E len \in 0 .. MaxLen, elem \in 0 .. MaxElem, res \in BufResults :
          add(len, elem, res)
    \/ \E len \in ByteLens, stride \in 0 .. MaxElem, res \in BufResults :
          add_bytes(len, stride, res)

SpecBuf == Init /\ [][NextBuf]_vars

\* ------------------------------------------------------------------ claims
AllOccupied == \A i \in Slots : lights[i].is_some

\* C1: from a fresh LightEnv every create_light call returns, the k-th call
\* (k = 1..8) returns index k-1 and the 9th and every later call returns
\* None, whatever other calls are interleaved.
C1_CreateOrder ==
    /\ ~aborted
    /\ \A k \in 1 .. Len(createLog) :
          createLog[k] = IF k <= NB_LIGHTS THEN SomeIdx(k - 1) ELSE NoneIdx

C1_Witness ==
    /\ Len(createLog) > NB_LIGHTS + 1
    /\ createLog[NB_LIGHTS] = SomeIdx(NB_LIGHTS - 1)
    /\ createLog[NB_LIGHTS + 1] = NoneIdx
    /\ ops > 0

\* C2: light_mut(idx) returns a view exactly when slot idx is occupied, the
\* view is the one of slot idx, and the call changes neither the light slots
\* nor the hardware state.
C2_LightMutIff ==
    [][\A idx \in Slots :
          light_mut(idx) =>
             /\ ret'.op = "light_mut"
             /\ ret'.val.some <=> lights[idx].is_some
             /\ ret'.val.some => ret'.val.v = idx
             /\ lights' = lights
             /\ raw' = raw]_vars

C2_Witness ==
    /\ ret.op = "light_mut"
    /\ ~ret.val.some
    /\ lights[0].is_some
    /\ ~AllOccupied

\* C3: with all 8 slots occupied create_light returns None without a panic,
\* calls no hardware function and leaves the lights, the shared LUT slots and
\* the hardware state as they were.
C3_ExhaustedNoEffect ==
    [][(AllOccupied /\ create_light) =>
          /\ ret' = [op |-> "create_light", val |-> NoneIdx, hw |-> FALSE]
          /\ ~aborted'
          /\ lights' = lights
          /\ luts' = luts
          /\ raw' = raw]_vars

C3_Witness ==
    /\ AllOccupied
    /\ ret = [op |-> "create_light", val |-> NoneIdx, hw |-> FALSE]
    /\ \E i \in LutSlots : luts[i] # NoLut

\* C4: an occupied slot stays occupied and light_mut(i) keeps giving the view
\* of slot i; set_color(r, g, b) through it stores <<r, g, b>>, and no step
\* other than a set_color on light i changes the colour of light i.
C4_IndexStability ==
    [][\A i \in Slots :
          /\ \A c \in Colors :
                set_color(i, c[1], c[2], c[3]) => lights'[i].raw.color = c
          /\ lights[i].is_some =>
                /\ lights'[i].is_some
                /\ light_mut_view(lights', i) = SomeIdx(i)
                /\ lights'[i].raw.color # lights[i].raw.color =>
                      \E c \in Colors : set_color(i, c[1], c[2], c[3])]_vars

C4_Witness ==
    /\ lights[3].raw.color = <<1, 0, 0>>
    /\ ret.op = "create_light"
    /\ ret.val.some
    /\ \E i \in LutSlots : luts[i] # NoLut

\* C5: the light slots the hardware environment holds a light in are the
\* occupied software slots, each holding the address of that slot; the slot
\* the hardware initialisation would pick is the one create_light picks, and
\* no assertion has failed.
C5_LockStep ==
    /\ ~aborted
    /\ \A i \in Slots :
          raw.lights[i] = IF lights[i].is_some THEN LightAddr(i) ELSE Null
    /\ FirstEmpty(lights).some =>
          C3D_LightInit(lights, raw, FirstEmpty(lights).v).r = FirstEmpty(lights).v

C5_Witness ==
    /\ lights[4].is_some
    /\ ~lights[5].is_some
    /\ raw.lights[4] = LightAddr(4)
    /\ ops > 0

\* C6: when the hardware initialisation reports a negative result or a slot
\* other than the one create_light chose, the call panics and returns
\* neither Some(index) nor None.
C6_MismatchAborts ==
    [][(/\ create_light
        /\ FirstEmpty(lights).some
        /\ LET idx == FirstEmpty(lights).v
               r == C3D_LightInit(lights, raw, idx).r
           IN  r < 0 \/ r # idx) =>
          /\ aborted'
          /\ createLog' = createLog
          /\ ret'.op = "panic"]_vars

C6_Witness ==
    /\ aborted
    /\ ret.op = "panic"
    /\ \E i \in Slots : lights[i].is_some /\ raw.lights[i] # LightAddr(i)


\* C7: from_fn ends by returning a table for every curve and for both
\* values of negative: it never panics.
C7_FromFnInfallible == fn_pc # "panic"

\* C8: in the table from_fn(f, false) returns, entry 256 + k is
\* f((k + 1) / 256) minus the sample at k for k = 0 .. 255 (entry 511 uses
\* f(1)), and the first sample got no difference: index 0 + 255 holds none.
C8_ForwardDifferences ==
    (fn_pc = "done" /\ ~fn_negative) =>
       /\ \A k \in 0 .. 255 :
             fn_data[256 + k] = Curve(fn_f, XOf(k + 1, 256)) - fn_data[k]
       /\ fn_data[511] = Curve(fn_f, 256) - fn_data[255]
       /\ fn_writes[255].d = 0

C8_Witness ==
    /\ fn_pc = "done"
    /\ ~fn_negative
    /\ fn_f = 2
    /\ \E k \in 0 .. 255 : fn_data[256 + k] # 0

\* C9: from_fn(f, false) calls f at i / 256 for i = 0, 1, ..., 256 in that
\* order, stores f(i / 256) at index i for i = 0 .. 255, and stores no
\* sample for i = 256.
C9_BaseSamples ==
    (fn_pc = "done" /\ ~fn_negative) =>
       /\ fn_calls = [k \in 1 .. 257 |-> k - 1]
       /\ \A j \in 0 .. 255 : fn_data[j] = Curve(fn_f, j)
       /\ fn_writes[256].s = 0

C9_Witness ==
    /\ fn_pc = "done"
    /\ ~fn_negative
    /\ fn_f = 2
    /\ Len(fn_calls) = 257
    /\ fn_data[255] = Curve(2, 255)

\* C10: from_fn(f, true) returns a table that holds the sample of step i
\* (x = i / 128, i = -128 .. 127) at index i mod 256.
C10_SignedIndexMapping ==
    (fn_negative /\ fn_pc \notin {"call", "loop"}) =>
       /\ fn_pc = "done"
       /\ \A j \in (0 - 128) .. 127 : fn_data[j % 256] = Curve(fn_f, XOf(j, 128))

\* The shared slot the role names, as the source lists them.
RoleSlot ==
    [id \in {"D0", "D1", "Fresnel", "ReflectBlue", "ReflectGreen", "ReflectRed"} |->
        CASE id = "D0" -> 0
          [] id = "D1" -> 1
          [] id = "Fresnel" -> 2
          [] id = "ReflectBlue" -> 3
          [] id = "ReflectGreen" -> 4
          [] id = "ReflectRed" -> 5]

\* C12: connect_lut(id, input, data) for one of the six shared roles leaves
\* that role's slot holding data, whatever it held, and leaves the other
\* five shared slots and every light slot as they were.
C12_ConnectStoresInRoleSlot ==
    [][\A id \in DOMAIN RoleSlot, input \in LutInputs, d \in LutDatas :
          connect_lut(id, input, d) =>
             /\ luts' = [luts EXCEPT ![RoleSlot[id]] = d]
             /\ lights' = lights]_vars

C12_Witness ==
    /\ luts[2] = 2
    /\ luts[3] = 1
    /\ \A k \in LutSlots \ {2, 3} : luts[k] = NoLut
    /\ lights[0].is_some

\* C13: connect_lut with SpotLightAttenuation or DistanceAttenuation stores
\* nothing: the six shared slots and every light (its spot and diffuse_atten
\* included) are unchanged, and the hardware is handed a null reference.
C13_AttenuationStoresNothing ==
    [][\A id \in {"SpotLightAttenuation", "DistanceAttenuation"},
          input \in LutInputs, d \in LutDatas :
          connect_lut(id, input, d) =>
             /\ luts' = luts
             /\ lights' = lights
             /\ \A k \in Slots : lights'[k].spot = NoLut /\ lights'[k].diffuse_atten = NoLut
             /\ raw'.luts[id] = [ptr |-> Null, input |-> input]]_vars

C13_Witness ==
    /\ raw.luts["SpotLightAttenuation"].input = "LightNormal"
    /\ raw.luts["SpotLightAttenuation"].ptr = Null
    /\ luts[0] # NoLut
    /\ lights[0].is_some

\* C14: LightIndex::new(idx) panics for every idx >= 8 and makes a
\* LightIndex for every idx in 0 .. 7, whose as_usize() is idx.
C14_LightIndexRange ==
    /\ li_out.state = "panic" <=> (li_out.state # "call" /\ li_arg >= 8)
    /\ li_out.state = "made" <=> (li_out.state # "call" /\ li_arg < 8)
    /\ li_usize # 0 - 1 => li_usize = li_arg

C14_Witness ==
    /\ li_arg = 7
    /\ li_out.state = "made"
    /\ li_usize = 7

\* The slots create_light has returned so far.
Created == {createLog[k].v : k \in {j \in 1 .. Len(createLog) : createLog[j].some}}

\* C15: an occupied slot is occupied in every later state, and no
\* create_light call touches a light that exists: each slot is created once.
C15_NoRemoval ==
    [][\A i \in Slots :
          lights[i].is_some =>
             /\ lights'[i].is_some
             /\ (createLog' # createLog \/ aborted') => lights'[i] = lights[i]
             /\ i \in Created /\ i \in {createLog'[k].v : k \in 1 .. Len(createLog')}
             /\ Cardinality({k \in 1 .. Len(createLog') :
                               createLog'[k] = SomeIdx(i)}) = 1]_vars

C15_Witness ==
    /\ AllOccupied
    /\ Len(createLog) > NB_LIGHTS
    /\ lights[0].raw.color # <<0, 0, 0>>
    /\ ~lights[1].raw.enabled

\* C16: for every occupied slot the hardware state holds the address of that
\* slot of the pinned LightEnv, and the light holds the address of the
\* LightEnv's raw field; no step changes either record.
C16_AddressStability ==
    \A i \in Slots :
       lights[i].is_some =>
          /\ raw.lights[i] = LightAddr(i)
          /\ lights[i].raw.parent = EnvAddr

C16_Witness ==
    /\ \A i \in 0 .. 2 : lights[i].is_some /\ raw.lights[i] = LightAddr(i)
    /\ lights[0].raw.parent = EnvAddr
    /\ lights[0].raw.position # <<0, 0, 0, 0>>
    /\ raw.material # 0

\* C18: set_position, set_color, set_enabled and set_shadow on light i each
\* write their own field of light i and nothing else: position gets w = 1,
\* the colour channels are stored as given, and the other fields, the other
\* lights, the occupancy, the shared LUT slots and the environment's hardware
\* state stay as they were; none of them panics.  A mutator step on light i
\* leaves every other slot as it was, so only the slots a step changed (all
\* of them when it changed none) can be the i of that step.
C18_MutatorIndependence ==
    [][\A i \in (IF lights' = lights THEN Slots
                 ELSE {j \in Slots : lights'[j] # lights[j]}) :
          /\ \A p \in Positions :
                set_position(i, p) =>
                   /\ lights' = [lights EXCEPT ![i].raw.position = <<p[1], p[2], p[3], 1>>]
                   /\ luts' = luts /\ raw' = raw /\ ~aborted'
          /\ \A c \in Colors :
                set_color(i, c[1], c[2], c[3]) =>
                   /\ lights' = [lights EXCEPT ![i].raw.color = c]
                   /\ luts' = luts /\ raw' = raw /\ ~aborted'
          /\ \A b \in BOOLEAN :
                set_enabled(i, b) =>
                   /\ lights' = [lights EXCEPT ![i].raw.enabled = b]
                   /\ luts' = luts /\ raw' = raw /\ ~aborted'
          /\ \A b \in BOOLEAN :
                set_shadow(i, b) =>
                   /\ lights' = [lights EXCEPT ![i].raw.shadow = b]
                   /\ luts' = luts /\ raw' = raw /\ ~aborted']_vars

C18_Witness ==
    /\ lights[1].raw.position = <<1, 0 - 4, 3, 1>>
    /\ lights[1].raw.color = <<2, 5, 0 - 1>>
    /\ lights[0].is_some
    /\ lights[0].raw = [ZeroedLight EXCEPT !.enabled = TRUE, !.parent = EnvAddr]

\* C20: the occupied slots are exactly 0 .. n-1, n being the number of
\* create_light calls that returned an index, and n <= 8.
C20_PrefixInvariant ==
    LET n == Cardinality({k \in 1 .. Len(createLog) : createLog[k].some}) IN
    /\ n <= NB_LIGHTS
    /\ {i \in Slots : lights[i].is_some} = 0 .. (n - 1)

C20_Witness ==
    /\ {i \in Slots : lights[i].is_some} = 0 .. 4
    /\ Len(createLog) = 5
    /\ ops > 0

\* C19: add and add_bytes turn the result of BufInfo_Add into their outcome:
\* -1 is Err(TooManyBuffers), -2 is Err(InvalidMemoryLocation), a result of
\* -3 or less is Err(System(result)), and a result of 0 or more is Ok(Slice)
\* whose index() is that result.
C19_ResultMapping ==
    buf_call.fn # "none" =>
       /\ buf_call.res = 0 - 1 => buf_out = ErrOf("TooManyBuffers", 0)
       /\ buf_call.res = 0 - 2 => buf_out = ErrOf("InvalidMemoryLocation", 0)
       /\ buf_call.res <= 0 - 3 => buf_out = ErrOf("System", buf_call.res)
       /\ buf_call.res >= 0 =>
             /\ buf_out.kind = "Ok"
             /\ Slice_index(buf_out) = buf_call.res

C19_Witness ==
    /\ buf_call = [fn |-> "add", len |-> 3, elem |-> 4, res |-> 11]
    /\ buf_out.kind = "Ok"
    /\ Slice_index(buf_out) = 11

\* The table reference the hardware holds for a shared role agrees with
\* the role's slot: null exactly when the slot is empty, else the slot itself.
LutRefConsistent(env, ls, id) ==
    /\ env.luts[id].ptr # Null <=> ls[RoleSlot[id]] # NoLut
    /\ env.luts[id].ptr # Null => env.luts[id].ptr = LutAddr(RoleSlot[id])

\* C21: in every state, before and after every step, each of the six shared
\* roles has a non-null hardware table reference exactly when its slot holds
\* data, and the reference is to that slot; a connect_lut for the role
\* leaves the slot holding its argument, so the reference is to the data of
\* the most recent connect_lut for the role.
C21_SharedLutReference ==
    [][/\ \A id \in DOMAIN RoleSlot :
             LutRefConsistent(raw, luts, id) /\ LutRefConsistent(raw', luts', id)
       /\ \A id \in DOMAIN RoleSlot, input \in LutInputs, d \in LutDatas :
             connect_lut(id, input, d) =>
                /\ luts'[RoleSlot[id]] = d
                /\ raw'.luts[id].ptr = LutAddr(RoleSlot[id])]_vars

C21_Witness ==
    /\ luts[2] = 2
    /\ raw.luts["Fresnel"].ptr = LutAddr(2)
    /\ luts[0] = NoLut
    /\ raw.luts["D0"].ptr = Null
    /\ ops = MaxOps

\* C22: from_fn(f, false) never panics; while it runs, step i has written
\* the samples at 0 .. i-1 (none above 255) and the differences at
\* 256 .. i+254, each once, samples only at 0 .. 255 and differences only at
\* 256 .. 511; when it returns every one of the 512 entries was written
\* exactly once.
C22_FullCoverage ==
    ~fn_negative =>
       /\ fn_pc # "panic"
       /\ fn_pc \in {"loop", "done"} =>
             \A j \in 0 .. (LUT_SZ - 1) :
                /\ fn_writes[j].s = (IF j < fn_i /\ j <= 255 THEN 1 ELSE 0)
                /\ fn_writes[j].d = (IF j >= 256 /\ j < fn_i + 255 THEN 1 ELSE 0)
       /\ fn_pc = "done" =>
             \A j \in 0 .. (LUT_SZ - 1) : fn_writes[j].s + fn_writes[j].d = 1

C22_Witness ==
    /\ fn_pc = "done"
    /\ ~fn_negative
    /\ fn_f = 1
    /\ fn_writes[0] = [s |-> 1, d |-> 0]
    /\ fn_writes[255] = [s |-> 1, d |-> 0]
    /\ fn_writes[256] = [s |-> 0, d |-> 1]
    /\ fn_writes[511] = [s |-> 0, d |-> 1]

\* C23: when add::<T>(vbo_data, attrib_info) succeeds, len() of the Slice it
\* returns is vbo_data.len(), the number of elements, whatever the size of T.
C23_LenIsElementCount ==
    (buf_call.fn = "add" /\ buf_out.kind = "Ok") =>
       Slice_len(buf_out) = buf_call.len

Next ==
    \/ create_light
    \/ \E idx \in Slots : light_mut(idx)
    \/ \E idx \in Slots, p \in Positions : set_position(idx, p)
    \/ \E idx \in Slots, c \in Colors : set_color(idx, c[1], c[2], c[3])
    \/ \E idx \in Slots, b \in BOOLEAN : set_enabled(idx, b)
    \/ \E idx \in Slots, b \in BOOLEAN : set_shadow(idx, b)
    \/ \E id \in LightLutIds, input \in LutInputs, data \in LutDatas :
          connect_lut(id, input, data)
    \/ \E mat \in Materials : set_material(mat)

Spec == Init /\ [][Next]_vars

\* The same program with a caller that also writes the hardware state
\* through as_raw_mut.
NextRaw ==
    \/ Next
    \/ \E i \in Slots, p \in {Null, Foreign} : as_raw_mut_write(i, p)

SpecRaw == Init /\ [][NextRaw]_vars
====
